---- MODULE Spec2Model ----
(***************************************************************************)
(* A model of ndr/nmap_runner.py: NmapConfig, NmapRunner.run_scan, the     *)
(* scan helpers built on it, and the four-phase sweep run_network_scans.   *)
(*                                                                         *)
(* Strings are sequences of one-character strings, so that str.split,      *)
(* string concatenation and the "in" substring test are computed as Python *)
(* computes them.  An argument list is a sequence of such strings.         *)
(***************************************************************************)
EXTENDS Integers, Sequences, FiniteSets, TLC

(* ------------------------------ bounds --------------------------------- *)

\* longest frontier (discovered_hosts) a sweep accumulates
MaxFrontier == 2

(* ------------------------------ strings -------------------------------- *)

\* Python's None; no character string equals it (its element is no character)
None == <<"None">>

\* None where the code expects an address or network object
NoTarget == [version |-> 0, compressed |-> None]

SPACE == <<" ">>

\* s.startswith(prefix)
StartsWith(s, prefix) ==
    /\ Len(s) >= Len(prefix)
    /\ SubSeq(s, 1, Len(prefix)) = prefix

\* sub in s
Contains(s, sub) ==
    \E k \in 0..(Len(s) - Len(sub)) : SubSeq(s, k + 1, k + Len(sub)) = sub

\* s.split(" "): cut at every single space, empty pieces kept
Split[s \in Seq(STRING)] ==
    IF \A k \in 1..Len(s) : s[k] # " "
    THEN <<s>>
    ELSE LET cut == CHOOSE k \in 1..Len(s) :
                        s[k] = " " /\ \A j \in 1..(k - 1) : s[j] # " "
         IN  <<SubSeq(s, 1, cut - 1)>> \o Split[SubSeq(s, cut + 1, Len(s))]

\* the elements of a sequence
Range(s) == {s[k] : k \in 1..Len(s)}

(* ----------------------- addresses and networks ------------------------ *)

\* ipaddress.ip_address(x): an address object parsed from str(x)
ip_address(x) ==
    [version    |-> IF ":" \in Range(x.compressed) THEN 6 ELSE 4,
     compressed |-> x.compressed]

\* IPv4Address.is_link_local (169.254.0.0/16) and IPv6Address.is_link_local
\* (fe80::/10), read off the compressed text
is_link_local(ipaddr) ==
    IF ipaddr.version = 4
    THEN StartsWith(ipaddr.compressed, <<"1", "6", "9", ".", "2", "5", "4", ".">>)
    ELSE \E c \in {"8", "9", "a", "b"} :
             /\ StartsWith(ipaddr.compressed, <<"f", "e", c>>)
             /\ Len(ipaddr.compressed) >= 5
             /\ ipaddr.compressed[5] = ":"

\* faulty variant: the target text is stored as it is
ip_network_asis(text) == text

\* ipaddress.ip_network(text).compressed: a bare address becomes the
\* single-address prefix of its family, a prefix is kept
ip_network(text) ==
    IF "/" \in Range(text)
    THEN text
    ELSE IF ":" \in Range(text)
         THEN text \o <<"/", "1", "2", "8">>
         ELSE text \o <<"/", "3", "2">>

Addr4 == [version |-> 4, compressed |-> <<"1", "0", ".", "0", ".", "0", ".", "5">>]
Addr4LL ==
    [version |-> 4, compressed |-> <<"1", "6", "9", ".", "2", "5", "4", ".", "0", ".", "7">>]
Addr6 == [version |-> 6, compressed |-> <<"f", "d", "0", "0", ":", ":", "5">>]
Addr6LL == [version |-> 6, compressed |-> <<"f", "e", "8", "0", ":", ":", "1">>]

\* the addresses a scan result may list (scan.full_ip_list())
Addresses == {Addr4, Addr4LL, Addr6, Addr6LL}

Net4 == [version |-> 4, compressed |-> <<"1", "0", ".", "0", ".", "0", ".", "0", "/", "2", "4">>]
Net6 == [version |-> 6, compressed |-> <<"f", "d", "0", "0", ":", ":", "/", "6", "4">>]
\* the network of an interface's IPv6 link-local address
NetLL == [version |-> 6, compressed |-> <<"f", "e", "8", "0", ":", ":", "/", "6", "4">>]
NetWan == [version |-> 4,
           compressed |-> <<"2", "0", "3", ".", "0", ".", "1", "1", "3", ".", "0", "/", "2", "4">>]

\* managed interfaces; each current_ip_addresses entry is given by the network
\* its ip_network() returns
Lan0 == [name |-> <<"l", "a", "n", "0">>, current_ip_addresses |-> <<Net4, Net6>>]
Lan1 == [name |-> <<"l", "a", "n", "1">>, current_ip_addresses |-> <<NetLL>>]
Lan2 == [name |-> <<"l", "a", "n", "2">>, current_ip_addresses |-> <<>>]
Wan0 == [name |-> <<"w", "a", "n", "0">>, current_ip_addresses |-> <<NetWan>>]

\* the lists netcfg.get_all_managed_interfaces() may return
NetworkConfigurations ==
    { <<>>, <<Wan0>>, <<Lan0>>, <<Wan0, Lan1>>, <<Lan1, Wan0, Lan2>> }

\* the lists a caller may have put in nmap_config.blacklisted_hosts
Blacklists == { <<>>, <<Addr4, Addr6LL>> }

(* ------------------------------ NmapConfig ----------------------------- *)

\* the interfaces kept by the loop of NmapConfig.__init__
RECURSIVE ScanInterfacesOf(_)
ScanInterfacesOf(interfaces) ==
    IF interfaces = <<>>
    THEN <<>>
    ELSE LET interface == Head(interfaces)
         IN  IF ~Contains(interface.name, <<"l", "a", "n">>)
             THEN ScanInterfacesOf(Tail(interfaces))
             ELSE <<interface.name>> \o ScanInterfacesOf(Tail(interfaces))

\* the networks appended by the loop of NmapConfig.__init__
RECURSIVE NetworksToScanOf(_)
NetworksToScanOf(interfaces) ==
    IF interfaces = <<>>
    THEN <<>>
    ELSE LET interface == Head(interfaces)
         IN  IF ~Contains(interface.name, <<"l", "a", "n">>)
             THEN NetworksToScanOf(Tail(interfaces))
             ELSE interface.current_ip_addresses \o NetworksToScanOf(Tail(interfaces))

(* ------------------------------ scan types ----------------------------- *)

ARP_DISCOVERY == "arp-discovery"
IPV6_LINK_LOCAL_DISCOVERY == "ipv6-link-local-discovery"
IP_PROTOCOL_DETECTION == "ip-protocol-detection"
PORT_SCAN == "port-scan"
SERVICE_DISCOVERY == "service-discovery"
ND_DISCOVERY == "nd-discovery"

(* ------------------------------- state --------------------------------- *)

VARIABLES
    scan_interfaces,    \* nmap_config.scan_interfaces
    networks_to_scan,   \* nmap_config.networks_to_scan
    blacklisted_hosts,  \* nmap_config.blacklisted_hosts
    pc,                 \* the loop run_network_scans is in, "done" or "raised"
    step,               \* "scan": about to call the scan; "send": about to process it
    idx,                \* position of the current loop in its list (from 1)
    discovered_hosts,   \* the frontier: <<found_ip, interface>> pairs
    scan,               \* the scan object most recently returned by run_scan
    error,              \* the exception that left run_network_scans
    tempfiles,          \* the temporary output files that exist
    trace,              \* engine invocations, sign_report and load_into_queue calls
    reported,           \* addresses listed by the discovery scans, in order
    call                \* the scan helper most recently called, with its arguments

vars == <<scan_interfaces, networks_to_scan, blacklisted_hosts, pc, step, idx,
          discovered_hosts, scan, error, tempfiles, trace, reported, call>>

config == <<scan_interfaces, networks_to_scan, blacklisted_hosts>>

(* --------------------------- command building -------------------------- *)

OPT_ARP == <<"-", "s", "n", " ", "-", "R", " ", "-", "P", "R">>
OPT_ND == <<"-", "6", " ", "-", "R", " ", "-", "s", "n", " ", "-", "P", "R">>
OPT_LL_HEAD == <<"-", "6", " ", "-", "R", " ", "-", "s", "n", " ", "-", "e", " ">>
OPT_LL_TAIL ==
    <<" ", "-", "-", "s", "c", "r", "i", "p", "t", "=", "t", "a", "r", "g", "e", "t", "s",
      "-", "i", "p", "v", "6", "-", "m", "u", "l", "t", "i", "c", "a", "s", "t", "-", "*",
      " ", "-", "-", "s", "c", "r", "i", "p", "t", "-", "a", "r", "g", "s", "=",
      "n", "e", "w", "t", "a", "r", "g", "e", "t", "s">>
OPT_PROTOCOL == <<"-", "s", "O">>
OPT_INDEPTH == <<"-", "s", "S", " ", "-", "A", " ", "-", "T", "4">>
FLAG_6 == <<"-", "6">>
FLAG_E == <<"-", "e">>
FLAG_OX == <<"-", "o", "X">>

\* the options string of v6_link_local_scan: the format string with %s filled in
LinkLocalOptions(interface) == OPT_LL_HEAD \o interface \o OPT_LL_TAIL

\* nmap_flags of protocol_scan
ProtocolFlags(network) ==
    IF network.version = 6 THEN FLAG_6 \o OPT_PROTOCOL ELSE OPT_PROTOCOL

\* faulty variant: a missing interface is formatted instead of raising
IndepthRaises_never(address, interface) == FALSE

\* indepth_host_scan cannot build its options: "-e " + None is a TypeError
IndepthRaises(address, interface) ==
    is_link_local(ip_address(address)) /\ interface = None

\* faulty variant: no space between the interface and the options after it
IndepthOptions_nospace(address, interface) ==
    LET ipaddr == ip_address(address)
        options == IF ipaddr.version = 6
                   THEN FLAG_6 \o SPACE \o OPT_INDEPTH
                   ELSE OPT_INDEPTH
    IN  IF is_link_local(ipaddr)
        THEN FLAG_E \o SPACE \o interface \o options
        ELSE options

\* options of indepth_host_scan, where they can be built
IndepthOptions(address, interface) ==
    LET ipaddr == ip_address(address)
        options == IF ipaddr.version = 6
                   THEN FLAG_6 \o SPACE \o OPT_INDEPTH
                   ELSE OPT_INDEPTH
    IN  IF is_link_local(ipaddr)
        THEN FLAG_E \o SPACE \o interface \o SPACE \o options
        ELSE options

\* faulty variant: nmap_cmd is one list shared by all calls, so each call adds
\* its arguments after those of the call before it
NmapCmd_shared(options, xml_logfile, target) ==
    LET runs == {k \in 1..Len(trace) : trace[k].ev = "nmap"}
        nmap_cmd == IF runs = {}
                    THEN <<<<"n", "m", "a", "p">>>>
                    ELSE trace[CHOOSE k \in runs : \A j \in runs : j <= k].args
    IN  nmap_cmd \o Split[options] \o <<FLAG_OX, xml_logfile>>
            \o (IF target # NoTarget THEN <<target.compressed>> ELSE <<>>)

\* nmap_cmd of run_scan
NmapCmd(options, xml_logfile, target) ==
    <<<<"n", "m", "a", "p">>>> \o Split[options] \o <<FLAG_OX, xml_logfile>>
        \o (IF target # NoTarget THEN <<target.compressed>> ELSE <<>>)

\* the scan object after the last lines of run_scan: scan_type set, scan_target
\* set only where a target was given
WithTypeAndTarget(nmap_scan, scan_type, target) ==
    [nmap_scan EXCEPT !.scan_type = scan_type,
                      !.scan_target = IF target # NoTarget
                                      THEN ip_network(target.compressed)
                                      ELSE @]

(* ------------------------------- run_scan ------------------------------ *)

\* exit statuses of the nmap process
ReturnCodes == {0, 1}
\* what a failing nmap process wrote to stderr, as bytes: nothing, the ASCII
\* text QUITTING!, or a byte that is not UTF-8
StderrBytes == {<<>>, <<81, 85, 73, 84, 84, 73, 78, 71, 33>>, <<255>>}

\* the character of an ASCII code
Chr(code) ==
    CASE code = 33 -> "!"
      [] code = 71 -> "G"
      [] code = 73 -> "I"
      [] code = 78 -> "N"
      [] code = 81 -> "Q"
      [] code = 84 -> "T"
      [] code = 85 -> "U"
      [] OTHER -> "?"

\* str(bytes, 'utf-8') does not raise UnicodeDecodeError (one-byte characters
\* only: the bytes 0 to 127)
Utf8Decodes(bytes) == \A k \in 1..Len(bytes) : bytes[k] < 128

\* str(bytes, 'utf-8'), where it decodes
Utf8Text(bytes) == [k \in 1..Len(bytes) |-> Chr(bytes[k])]

NoError == [type |-> "none", returncode |-> 0, stderr |-> <<>>]
\* ndr.NmapScan(config): a fresh scan object, no type, no target, no hosts; id
\* numbers the objects in the order run_scan creates them
NmapScan(id) == [id |-> id, scan_type |-> "none", scan_target |-> None, hosts |-> <<>>]
\* no scan has been returned yet
NoScan == NmapScan(0)
NoCall == [fn |-> "none", target |-> None, interface |-> None]

EngineEvents(t) == {k \in 1..Len(t) : t[k].ev = "nmap"}

\* tempfile.mkstemp(): a file that did not exist, one per run_scan call
Mkstemp == <<"/", "t", "m", "p", "/", "t", "m", "p", ToString(Cardinality(EngineEvents(trace)) + 1)>>

DiscoveryTypes == {IPV6_LINK_LOCAL_DISCOVERY, ARP_DISCOVERY, ND_DISCOVERY}

\* the lists scan.full_ip_list() may return
FullIpLists ==
    {<<>>} \cup {<<a>> : a \in Addresses} \cup {<<Addr4, Addr6LL>>, <<Addr6, Addr6>>}

\* the host lists a scan of this type may come back with
HostLists(scan_type) ==
    {h \in FullIpLists :
        scan_type \in DiscoveryTypes => Len(discovered_hosts) + Len(h) <= MaxFrontier}

Event(ev, id, scan_type, args, target, returncode) ==
    [ev |-> ev, id |-> id, scan_type |-> scan_type, args |-> args,
     target |-> target, returncode |-> returncode, options |-> <<>>, stderr |-> <<>>]

\* the exception run_scan raises on a non-zero exit: NmapFailure with the exit
\* status and the decoded stderr, unless decoding stderr raises first
EngineError(returncode, stderr) ==
    IF Utf8Decodes(stderr)
    THEN [type |-> "NmapFailure", returncode |-> returncode, stderr |-> Utf8Text(stderr)]
    ELSE [type |-> "UnicodeDecodeError", returncode |-> 0, stderr |-> <<>>]

\* faulty variant: the failing item is skipped and the loop goes on
Raise_isolated(exc) ==
    /\ error' = exc
    /\ idx' = idx + 1
    /\ UNCHANGED <<pc, step, discovered_hosts, scan, reported>>

\* an exception leaves run_network_scans: nothing there catches it
Raise(exc) ==
    /\ error' = exc
    /\ pc' = "raised"
    /\ UNCHANGED <<step, idx, discovered_hosts, scan, reported>>

\* NmapRunner.run_scan, called from a loop of run_network_scans
run_scan(scan_type, options, target) ==
    LET xml_logfile == Mkstemp
        nmap_cmd == NmapCmd(options, xml_logfile, target)
        id == Cardinality(EngineEvents(trace)) + 1
        nmap_event(returncode, stderr) ==
            [Event("nmap", id, scan_type, nmap_cmd, target.compressed, returncode)
                EXCEPT !.options = options, !.stderr = stderr]
    IN  \E returncode \in ReturnCodes :
            \/ /\ returncode # 0
               /\ \E stderr \in StderrBytes :
                      /\ trace' = Append(trace, nmap_event(returncode, stderr))
                      /\ Raise(EngineError(returncode, stderr))
               /\ tempfiles' = tempfiles \cup {xml_logfile}
            \/ /\ returncode = 0
               /\ trace' = Append(trace, nmap_event(returncode, <<>>))
               /\ tempfiles' = (tempfiles \cup {xml_logfile}) \ {xml_logfile}
               /\ \/ \* parse_nmap_xml raises
                     Raise([type |-> "ParseError", returncode |-> 0, stderr |-> <<>>])
                  \/ \E hosts \in HostLists(scan_type) :
                         /\ scan' = WithTypeAndTarget(
                                [NmapScan(id) EXCEPT !.hosts = hosts], scan_type, target)
                         /\ reported' = IF scan_type \in DiscoveryTypes
                                        THEN reported \o hosts ELSE reported
                         /\ step' = "send"
                         /\ UNCHANGED <<pc, idx, discovered_hosts, error>>

(* ----------------------------- scan helpers ---------------------------- *)

Call(fn, target, interface) == [fn |-> fn, target |-> target, interface |-> interface]

arp_host_discovery_scan(network) ==
    /\ call' = Call("arp_host_discovery_scan", network.compressed, None)
    /\ run_scan(ARP_DISCOVERY, OPT_ARP, network)

nd_host_discovery_scan(network) ==
    /\ call' = Call("nd_host_discovery_scan", network.compressed, None)
    /\ run_scan(ND_DISCOVERY, OPT_ND, network)

v6_link_local_scan(interface) ==
    /\ call' = Call("v6_link_local_scan", None, interface)
    /\ run_scan(IPV6_LINK_LOCAL_DISCOVERY, LinkLocalOptions(interface), NoTarget)

protocol_scan(network) ==
    /\ call' = Call("protocol_scan", network.compressed, None)
    /\ run_scan(IP_PROTOCOL_DETECTION, ProtocolFlags(network), network)

indepth_host_scan(address, interface) ==
    /\ call' = Call("indepth_host_scan", address.compressed, interface)
    /\ IF IndepthRaises(address, interface)
       THEN /\ Raise([type |-> "TypeError", returncode |-> 0, stderr |-> <<>>])
            /\ UNCHANGED <<tempfiles, trace>>
       ELSE run_scan(SERVICE_DISCOVERY, IndepthOptions(address, interface), address)

(* -------------------------- run_network_scans -------------------------- *)

\* faulty variant: the interface is not kept with the host
HostsInScan_untagged(s, interface) == [k \in 1..Len(s.hosts) |-> <<s.hosts[k], None>>]

\* hosts_in_scan of process_and_send_scan
HostsInScan(s, interface) == [k \in 1..Len(s.hosts) |-> <<s.hosts[k], interface>>]

\* faulty variant: queued before signed
SendCalls_swapped(s) ==
    << Event("load_into_queue", s.id, s.scan_type, <<>>, None, 0),
       Event("sign_report", s.id, s.scan_type, <<>>, None, 0) >>

\* the calls process_and_send_scan makes on the scan, in order
SendCalls(s) ==
    << Event("sign_report", s.id, s.scan_type, <<>>, None, 0),
       Event("load_into_queue", s.id, s.scan_type, <<>>, None, 0) >>

\* the pairs of new that are not yet in seen, in order, each once
RECURSIVE Unseen(_, _)
Unseen(new, seen) ==
    IF new = <<>>
    THEN <<>>
    ELSE IF \E k \in 1..Len(seen) : seen[k][1] = Head(new)[1]
         THEN Unseen(Tail(new), seen)
         ELSE <<Head(new)>> \o Unseen(Tail(new), Append(seen, Head(new)))

\* faulty variant: a host already in the frontier is not added again
process_and_send_scan_dedup(interface, found) ==
    /\ trace' = trace \o SendCalls(scan)
    /\ discovered_hosts' = IF found
                           THEN discovered_hosts
                                    \o Unseen(HostsInScan(scan, interface), discovered_hosts)
                           ELSE discovered_hosts
    /\ idx' = idx + 1
    /\ step' = "scan"
    /\ UNCHANGED <<pc, scan, error, tempfiles, reported, call>>

\* process_and_send_scan(scan, interface); found says whether the caller
\* adds the returned list to discovered_hosts
process_and_send_scan(interface, found) ==
    /\ trace' = trace \o SendCalls(scan)
    /\ discovered_hosts' = IF found
                           THEN discovered_hosts \o HostsInScan(scan, interface)
                           ELSE discovered_hosts
    /\ idx' = idx + 1
    /\ step' = "scan"
    /\ UNCHANGED <<pc, scan, error, tempfiles, reported, call>>

\* faulty variant: the loop stops one item early
LoopDone_early(list) == idx >= Len(list)

\* a for loop has run out of items
LoopDone(list) == idx > Len(list)

NextPhase(phase) ==
    /\ pc' = phase
    /\ idx' = 1
    /\ UNCHANGED <<step, discovered_hosts, scan, error, tempfiles, trace, reported, call>>

Init ==
    /\ \E interfaces \in NetworkConfigurations :
           /\ scan_interfaces = ScanInterfacesOf(interfaces)
           /\ networks_to_scan = NetworksToScanOf(interfaces)
    /\ blacklisted_hosts \in Blacklists
    /\ pc = "phase1"
    /\ step = "scan"
    /\ idx = 1
    /\ discovered_hosts = <<>>
    /\ scan = NoScan
    /\ error = NoError
    /\ tempfiles = {}
    /\ trace = <<>>
    /\ reported = <<>>
    /\ call = NoCall

\* Phase 1: Link-Local Discovery
LinkLocalScan ==
    /\ pc = "phase1" /\ step = "scan" /\ ~LoopDone(scan_interfaces)
    /\ v6_link_local_scan(scan_interfaces[idx])
    /\ UNCHANGED config

\* faulty variant: discovered_hosts is the scan_interfaces list itself, so the
\* hosts found are added to the configuration
LinkLocalSend_aliased ==
    /\ pc = "phase1" /\ step = "send"
    /\ process_and_send_scan(scan_interfaces[idx], TRUE)
    /\ scan_interfaces' = scan_interfaces
                              \o [k \in 1..Len(scan.hosts) |-> scan.hosts[k].compressed]
    /\ UNCHANGED <<networks_to_scan, blacklisted_hosts>>

LinkLocalSend ==
    /\ pc = "phase1" /\ step = "send"
    /\ process_and_send_scan(scan_interfaces[idx], TRUE)
    /\ UNCHANGED config

LinkLocalDone ==
    /\ pc = "phase1" /\ step = "scan" /\ LoopDone(scan_interfaces)
    /\ NextPhase("phase2")
    /\ UNCHANGED config

\* Phase 2: Network Discover
\* faulty variant: the address families are mixed up
NetworkScan_swapped ==
    /\ pc = "phase2" /\ step = "scan" /\ ~LoopDone(networks_to_scan)
    /\ LET network == networks_to_scan[idx]
       IN  IF network.version = 6
           THEN arp_host_discovery_scan(network)
           ELSE nd_host_discovery_scan(network)
    /\ UNCHANGED config

NetworkScan ==
    /\ pc = "phase2" /\ step = "scan" /\ ~LoopDone(networks_to_scan)
    /\ LET network == networks_to_scan[idx]
       IN  IF network.version = 4
           THEN arp_host_discovery_scan(network)
           ELSE nd_host_discovery_scan(network)
    /\ UNCHANGED config

NetworkSend ==
    /\ pc = "phase2" /\ step = "send"
    /\ process_and_send_scan(None, TRUE)
    /\ UNCHANGED config

NetworkDone ==
    /\ pc = "phase2" /\ step = "scan" /\ LoopDone(networks_to_scan)
    /\ NextPhase("phase3")
    /\ UNCHANGED config

\* Phase 3: Protocol Discovery
\* faulty variant: IPv6 networks get no protocol scan
ProtocolScan_v4only ==
    /\ pc = "phase3" /\ step = "scan" /\ ~LoopDone(networks_to_scan)
    /\ IF networks_to_scan[idx].version = 4
       THEN protocol_scan(networks_to_scan[idx])
       ELSE /\ idx' = idx + 1
            /\ UNCHANGED <<pc, step, discovered_hosts, scan, error, tempfiles, trace,
                           reported, call>>
    /\ UNCHANGED config

ProtocolScan ==
    /\ pc = "phase3" /\ step = "scan" /\ ~LoopDone(networks_to_scan)
    /\ protocol_scan(networks_to_scan[idx])
    /\ UNCHANGED config

\* faulty variant: the protocol scan's hosts are added to the frontier
ProtocolSend_feeds ==
    /\ pc = "phase3" /\ step = "send"
    /\ process_and_send_scan(None, TRUE)
    /\ UNCHANGED config

ProtocolSend ==
    /\ pc = "phase3" /\ step = "send"
    /\ process_and_send_scan(None, FALSE)
    /\ UNCHANGED config

ProtocolDone ==
    /\ pc = "phase3" /\ step = "scan" /\ LoopDone(networks_to_scan)
    /\ NextPhase("phase4")
    /\ UNCHANGED config

\* Phase 4: Host Scanning
HostScan ==
    /\ pc = "phase4" /\ step = "scan" /\ ~LoopDone(discovered_hosts)
    /\ LET host_tuple == discovered_hosts[idx]
       IN  indepth_host_scan(host_tuple[1], host_tuple[2])
    /\ UNCHANGED config

HostSend ==
    /\ pc = "phase4" /\ step = "send"
    /\ process_and_send_scan(None, FALSE)
    /\ UNCHANGED config

HostDone ==
    /\ pc = "phase4" /\ step = "scan" /\ LoopDone(discovered_hosts)
    /\ NextPhase("done")
    /\ UNCHANGED config

Next ==
    \/ LinkLocalScan \/ LinkLocalSend \/ LinkLocalDone
    \/ NetworkScan \/ NetworkSend \/ NetworkDone
    \/ ProtocolScan \/ ProtocolSend \/ ProtocolDone
    \/ HostScan \/ HostSend \/ HostDone

Spec == Init /\ [][Next]_vars

\* the sweep is one sequential call: while a step is possible, one is taken
FairSpec == Spec /\ WF_vars(Next)

(* ------------------------- properties of the sweep --------------------- *)

NmapEvents == EngineEvents(trace)

\* the phase a scan type belongs to
PhaseOfType(scan_type) ==
    CASE scan_type = IPV6_LINK_LOCAL_DISCOVERY -> 1
      [] scan_type \in {ARP_DISCOVERY, ND_DISCOVERY} -> 2
      [] scan_type = IP_PROTOCOL_DETECTION -> 3
      [] OTHER -> 4

\* the engine runs of the given phase that exited with 0 before position k
CompletedBefore(phase, k) ==
    {j \in 1..(k - 1) : /\ trace[j].ev = "nmap"
                        /\ trace[j].returncode = 0
                        /\ PhaseOfType(trace[j].scan_type) = phase}

\* scan object id was signed and then queued, both before position k
SentBefore(id, k) ==
    \E a, b \in 1..(k - 1) :
        /\ a < b
        /\ trace[a].ev = "sign_report" /\ trace[a].id = id
        /\ trace[b].ev = "load_into_queue" /\ trace[b].id = id

\* C1: the four phases run strictly in order. An engine run of a later phase
\* never precedes one of an earlier phase; when an ARP/ND discovery scan starts,
\* one link-local scan per configured interface has completed and each has been
\* signed and queued; when a protocol-detection scan starts, one ARP/ND scan per
\* configured network has completed; when an in-depth scan starts, one
\* protocol-detection scan per configured network has completed.
C1_PhasesInOrder ==
    \A k \in NmapEvents :
        LET phase == PhaseOfType(trace[k].scan_type)
        IN  /\ \A j \in NmapEvents :
                   j < k => PhaseOfType(trace[j].scan_type) <= phase
            /\ phase >= 2 =>
                   /\ Cardinality(CompletedBefore(1, k)) = Len(scan_interfaces)
                   /\ \A j \in CompletedBefore(1, k) : SentBefore(trace[j].id, k)
            /\ phase >= 3 =>
                   Cardinality(CompletedBefore(2, k)) = Len(networks_to_scan)
            /\ phase >= 4 =>
                   Cardinality(CompletedBefore(3, k)) = Len(networks_to_scan)

\* a finished sweep that ran scans of all four phases
C1_Witness ==
    /\ pc = "done"
    /\ \A phase \in 1..4 :
           \E k \in NmapEvents : PhaseOfType(trace[k].scan_type) = phase

BlacklistedTexts == {blacklisted_hosts[k].compressed : k \in 1..Len(blacklisted_hosts)}

\* C2: no in-depth engine run targets an address that is in blacklisted_hosts
\* (and so no scan object exists, is signed or is queued for such an address).
C2_BlacklistedSkipped ==
    \A k \in NmapEvents :
        trace[k].scan_type = SERVICE_DISCOVERY => trace[k].target \notin BlacklistedTexts

\* C3: a non-zero exit aborts the sweep. The failed engine run is the last
\* event there is (no engine run, sign_report or load_into_queue follows it),
\* the sweep has left with the failure, and every engine run that exited with 0
\* before it has been signed and queued.
C3_FailureAborts ==
    \A k \in NmapEvents :
        trace[k].returncode # 0 =>
            /\ k = Len(trace)
            /\ pc = "raised"
            /\ error.type \in {"NmapFailure", "UnicodeDecodeError"}
            /\ \A j \in 1..(k - 1) :
                   (trace[j].ev = "nmap" /\ trace[j].returncode = 0)
                       => SentBefore(trace[j].id, k)

\* a failure in phase 2, after a phase-1 scan was signed and queued
C3_Witness ==
    /\ Len(trace) > 0
    /\ trace[Len(trace)].ev = "nmap"
    /\ trace[Len(trace)].returncode # 0
    /\ PhaseOfType(trace[Len(trace)].scan_type) = 2
    /\ \E j \in 1..Len(trace) :
           /\ trace[j].ev = "load_into_queue"
           /\ trace[j].scan_type = IPV6_LINK_LOCAL_DISCOVERY

\* the positions of the events of the given kind on scan object id
CallsOn(ev, id) == {k \in 1..Len(trace) : trace[k].ev = ev /\ trace[k].id = id}

\* the engine run at position k returned a scan object to the sweep
Returned(k) ==
    /\ trace[k].ev = "nmap"
    /\ trace[k].returncode = 0
    /\ ~(k = Len(trace) /\ error.type = "ParseError")

\* C4: a scan that completed is signed once and then queued once, whatever it
\* found: sign_report is the event right after its engine run and
\* load_into_queue the one after that, so both come before the next engine run;
\* they are missing only while the sweep is about to process the scan just
\* returned, and neither is called on anything else.
C4_SignThenQueueOnce ==
    /\ \A k \in 1..Len(trace) :
           Returned(k) =>
               IF k = Len(trace)
               THEN /\ pc # "raised" /\ step = "send" /\ scan.id = trace[k].id
                    /\ CallsOn("sign_report", trace[k].id) = {}
                    /\ CallsOn("load_into_queue", trace[k].id) = {}
               ELSE /\ CallsOn("sign_report", trace[k].id) = {k + 1}
                    /\ CallsOn("load_into_queue", trace[k].id) = {k + 2}
    /\ \A k \in 1..Len(trace) :
           trace[k].ev \in {"sign_report", "load_into_queue"} =>
               \E j \in 1..(k - 1) : Returned(j) /\ trace[j].id = trace[k].id

\* a finished sweep in which a scan that found no host was signed and queued
\* and a later scan ran
C4_Witness ==
    /\ pc = "done"
    /\ \E k \in NmapEvents :
           /\ trace[k].scan_type = IPV6_LINK_LOCAL_DISCOVERY
           /\ CallsOn("load_into_queue", trace[k].id) # {}
           /\ discovered_hosts = <<>>
           /\ \E j \in NmapEvents : j > k

\* the targets of the in-depth engine runs, in order
RECURSIVE InDepthTargets(_)
InDepthTargets(t) ==
    IF t = <<>>
    THEN <<>>
    ELSE IF Head(t).ev = "nmap" /\ Head(t).scan_type = SERVICE_DISCOVERY
         THEN <<Head(t).target>> \o InDepthTargets(Tail(t))
         ELSE InDepthTargets(Tail(t))

NotBlacklisted(text) == text \notin BlacklistedTexts

\* the addresses the discovery scans listed, in order, as text
ReportedTexts == [k \in 1..Len(reported) |-> reported[k].compressed]

\* C5: in a sweep that ended without failure, the in-depth scans of addresses
\* that are not blacklisted are, in order and with repetitions, the addresses
\* the phase-1 and phase-2 scans listed: one in-depth scan per listing.
C5_NoDeduplication ==
    pc = "done" =>
        SelectSeq(InDepthTargets(trace), NotBlacklisted)
            = SelectSeq(ReportedTexts, NotBlacklisted)

\* a finished sweep in which two discovery scans listed the same address, which
\* is not blacklisted, and it was scanned in depth twice
C5_Witness ==
    /\ pc = "done"
    /\ blacklisted_hosts # <<>>
    /\ Len(reported) = 2
    /\ reported[1] = reported[2]
    /\ NotBlacklisted(reported[1].compressed)
    /\ InDepthTargets(trace) = <<reported[1].compressed, reported[1].compressed>>
    /\ discovered_hosts[1][2] # discovered_hosts[2][2]

\* C6: phases 3 and 4 leave the frontier as phase 2 left it, and every address
\* handed to indepth_host_scan was listed by a phase-1 or phase-2 scan.
C6_FrontierFrozen ==
    [][ /\ pc \in {"phase3", "phase4"} => discovered_hosts' = discovered_hosts
        /\ call'.fn = "indepth_host_scan" =>
               \E k \in 1..Len(reported') : reported'[k].compressed = call'.target
      ]_vars

\* a finished sweep whose last in-depth scan listed an address that no
\* discovery scan had listed
C6_Witness ==
    /\ pc = "done"
    /\ scan.scan_type = SERVICE_DISCOVERY
    /\ CallsOn("load_into_queue", scan.id) # {}
    /\ \E h \in 1..Len(scan.hosts) :
           \A k \in 1..Len(discovered_hosts) : discovered_hosts[k][1] # scan.hosts[h]

\* text is a prefix in CIDR form of the target written as given
IsCidrOf(text, given) ==
    IF "/" \in Range(given)
    THEN text = given
    ELSE \E n \in 1..Len(text) :
             /\ text[n] = "/"
             /\ SubSeq(text, 1, n - 1) = given
             /\ SubSeq(text, n + 1, Len(text))
                    = (IF ":" \in Range(given) THEN <<"1", "2", "8">> ELSE <<"3", "2">>)

\* C7: the scan object run_scan returned has scan_target None exactly when the
\* scan was run without a target (the link-local discovery), and otherwise the
\* CIDR form of the target: a network as given, an address with /32 or /128.
C7_ScanTarget ==
    \A k \in NmapEvents :
        trace[k].id = scan.id =>
            /\ scan.scan_type = trace[k].scan_type
            /\ (scan.scan_target = None) <=> (trace[k].target = None)
            /\ (trace[k].target = None) <=> (scan.scan_type = IPV6_LINK_LOCAL_DISCOVERY)
            /\ trace[k].target # None => IsCidrOf(scan.scan_target, trace[k].target)

\* an in-depth scan of an IPv6 address came back with a /128 target
C7_Witness ==
    /\ scan.scan_type = SERVICE_DISCOVERY
    /\ scan.scan_target = Addr6.compressed \o <<"/", "1", "2", "8">>

\* indepth_host_scan was last called on a link-local address with no interface
LinkLocalWithoutInterface ==
    /\ call.fn = "indepth_host_scan"
    /\ call.interface = None
    /\ is_link_local(ip_address([compressed |-> call.target]))

ServiceRuns == {k \in NmapEvents : trace[k].scan_type = SERVICE_DISCOVERY}

ProtocolRuns == {k \in NmapEvents : trace[k].scan_type = IP_PROTOCOL_DETECTION}

\* C9: the argument list of a protocol scan has "-6" as an argument exactly
\* when the network is IPv6, and always has "-sO" as an argument.
C9_ProtocolFlags ==
    \A k \in ProtocolRuns :
        /\ (FLAG_6 \in Range(trace[k].args)) <=> (":" \in Range(trace[k].target))
        /\ OPT_PROTOCOL \in Range(trace[k].args)

\* args has flag as an argument with value right after it
FlagWithValue(args, flag, value) ==
    \E n \in 1..(Len(args) - 1) : args[n] = flag /\ args[n + 1] = value

\* C10: the argument list of the engine run made by indepth_host_scan(A, I)
\* has "-6" exactly when A is IPv6 and has "-e" followed by I exactly when A is
\* link-local.
C10_IndepthFlags ==
    (call.fn = "indepth_host_scan" /\ error.type # "TypeError") =>
        LET e == trace[CHOOSE k \in NmapEvents : \A j \in NmapEvents : j <= k]
            A == ip_address([compressed |-> call.target])
        IN  /\ e.scan_type = SERVICE_DISCOVERY
            /\ e.target = call.target
            /\ e.args[Len(e.args)] = call.target
            /\ (FLAG_6 \in Range(e.args)) <=> (A.version = 6)
            /\ FlagWithValue(e.args, FLAG_E, call.interface) <=> is_link_local(A)

\* an in-depth scan of an IPv6 link-local address bound to its interface ran
\* with both flags
C10_Witness ==
    /\ call = Call("indepth_host_scan", Addr6LL.compressed, Lan0.name)
    /\ scan.scan_type = SERVICE_DISCOVERY
    /\ \E k \in NmapEvents :
           /\ trace[k].id = scan.id
           /\ FLAG_6 \in Range(trace[k].args)
           /\ FlagWithValue(trace[k].args, FLAG_E, Lan0.name)

\* two engine runs were made by run_scan calls with equal scan_type, options
\* and target
SameScan(j, k) ==
    /\ trace[j].scan_type = trace[k].scan_type
    /\ trace[j].options = trace[k].options
    /\ trace[j].target = trace[k].target

\* C11 as stated: two run_scan calls with equal scan_type, options and target
\* pass the same argument list to the engine.
C11_SameArguments ==
    \A j, k \in NmapEvents : SameScan(j, k) => trace[j].args = trace[k].args

\* C11 as amended: two run_scan calls with equal scan_type, options and target
\* pass argument lists of the same length that agree everywhere but in the
\* argument after "-oX", the temporary output file of the call.
C11_SameArgumentsButFile ==
    \A j, k \in NmapEvents :
        SameScan(j, k) =>
            /\ Len(trace[j].args) = Len(trace[k].args)
            /\ \A n \in 1..Len(trace[j].args) :
                   trace[j].args[n] # trace[k].args[n] =>
                       n > 1 /\ trace[j].args[n - 1] = FLAG_OX /\ trace[k].args[n - 1] = FLAG_OX

\* two different engine runs were made with equal scan_type, options and target
C11_Witness ==
    \E j, k \in NmapEvents : j # k /\ SameScan(j, k)

\* C12 as stated: whenever no run_scan call is in progress (run_scan is one
\* step here, so in every state), no temporary output file exists.
C12_NoTempfileLeft == tempfiles = {}

\* the ARP and ND discovery engine runs, in order
RECURSIVE NetworkDiscoveryRuns(_)
NetworkDiscoveryRuns(t) ==
    IF t = <<>>
    THEN <<>>
    ELSE IF Head(t).ev = "nmap" /\ Head(t).scan_type \in {ARP_DISCOVERY, ND_DISCOVERY}
         THEN <<Head(t)>> \o NetworkDiscoveryRuns(Tail(t))
         ELSE NetworkDiscoveryRuns(Tail(t))

\* C13: the k-th ARP/ND discovery run is on the k-th configured network, as
\* arp-discovery if that network is IPv4 and nd-discovery if it is IPv6; there
\* is never more than one per network, and once phase 2 is over there is
\* exactly one per network.
C13_OneDiscoveryPerNetwork ==
    LET runs == NetworkDiscoveryRuns(trace)
    IN  /\ Len(runs) <= Len(networks_to_scan)
        /\ \A k \in 1..Len(runs) :
               /\ runs[k].target = networks_to_scan[k].compressed
               /\ networks_to_scan[k].version = 4 <=> runs[k].scan_type = ARP_DISCOVERY
               /\ networks_to_scan[k].version = 6 <=> runs[k].scan_type = ND_DISCOVERY
        /\ pc \in {"phase3", "phase4", "done"} => Len(runs) = Len(networks_to_scan)

\* phase 2 is over after an ARP scan of an IPv4 network and an ND scan of an
\* IPv6 network
C13_Witness ==
    /\ pc = "phase3"
    /\ \E j, k \in NmapEvents :
           /\ trace[j].scan_type = ARP_DISCOVERY
           /\ trace[k].scan_type = ND_DISCOVERY

\* the hosts of s, each paired with interface
Tagged(s, interface) == [k \in 1..Len(s.hosts) |-> <<s.hosts[k], interface>>]

\* C14: processing a phase-1 scan appends its hosts paired with the interface
\* the scan ran on (the one after "-e" in its engine run); processing a phase-2
\* scan appends its hosts paired with None; each phase-4 step calls
\* indepth_host_scan with the address and the interface of its frontier entry.
C14_InterfaceTags ==
    [][ /\ (pc = "phase1" /\ step = "send") =>
               \E k \in NmapEvents :
                   /\ trace[k].id = scan.id
                   /\ \E interface \in Range(scan_interfaces) :
                          /\ FlagWithValue(trace[k].args, FLAG_E, interface)
                          /\ discovered_hosts' = discovered_hosts \o Tagged(scan, interface)
        /\ (pc = "phase2" /\ step = "send") =>
               discovered_hosts' = discovered_hosts \o Tagged(scan, None)
        /\ (pc = "phase4" /\ step = "scan" /\ idx <= Len(discovered_hosts)) =>
               call' = [fn |-> "indepth_host_scan",
                        target |-> discovered_hosts[idx][1].compressed,
                        interface |-> discovered_hosts[idx][2]]
      ]_vars

\* a finished sweep that scanned in depth a host found on lan0 and a host
\* found by a phase-2 scan
C14_Witness ==
    /\ pc = "done"
    /\ Len(discovered_hosts) = 2
    /\ discovered_hosts[1][2] = Lan0.name
    /\ discovered_hosts[2][2] = None
    /\ Len(InDepthTargets(trace)) = 2

\* C15 as stated: every frontier entry with a link-local address carries an
\* interface.
C15_LinkLocalTagged ==
    \A k \in 1..Len(discovered_hosts) :
        is_link_local(ip_address(discovered_hosts[k][1])) => discovered_hosts[k][2] # None

\* C16 as stated: after an engine run that exited with a non-zero status, the
\* sweep has failed with NmapFailure carrying that status and the text the
\* process wrote to stderr; the engine ran once for that call and no scan
\* object of that call exists, is signed or is queued.
C16_EngineFailure ==
    \A k \in NmapEvents :
        trace[k].returncode # 0 =>
            /\ error.type = "NmapFailure"
            /\ error.returncode = trace[k].returncode
            /\ Len(error.stderr) = Len(trace[k].stderr)
            /\ \A n \in 1..Len(error.stderr) : error.stderr[n] = Chr(trace[k].stderr[n])
            /\ Cardinality({j \in NmapEvents : trace[j].id = trace[k].id}) = 1
            /\ scan.id # trace[k].id
            /\ CallsOn("sign_report", trace[k].id) = {}
            /\ CallsOn("load_into_queue", trace[k].id) = {}

C18_ConfigUnchanged ==
    [][ /\ scan_interfaces' = scan_interfaces
        /\ networks_to_scan' = networks_to_scan
        /\ blacklisted_hosts' = blacklisted_hosts ]_vars

\* a finished sweep that added hosts to the frontier, with a blacklist set
C18_Witness ==
    /\ pc = "done"
    /\ discovered_hosts # <<>>
    /\ blacklisted_hosts # <<>>
    /\ scan_interfaces # <<>>
    /\ networks_to_scan # <<>>

====
